---- MODULE Spec2Model ----
(***************************************************************************)
(* The command-line tools of ai-content-gen as one state machine:          *)
(*   python/rdkit_service/pdf_compress.py  extended PDF compressor         *)
(*   scripts/compress_pdf.py               basic PDF compressor            *)
(*   server/chem/render.py                 SMILES -> SVG renderer          *)
(* One behaviour is one invocation: either a direct call of a pipeline     *)
(* function or a run of a script's main.  The PDF and cheminformatics      *)
(* libraries are the environment: every library call either succeeds or    *)
(* raises, chosen nondeterministically where the call is made.             *)
(***************************************************************************)
EXTENDS Integers, Sequences, FiniteSets, TLC

VARIABLES
    entry,      \* which function the invocation entered
    argv,       \* sys.argv, a sequence of tokens (a token is a sequence of characters)
    pc,         \* position in the code
    lossless,   \* compress_pdf's lossless parameter
    quality,    \* compress_pdf's image_quality: <<>> is None, <<q>> is the integer q
    src,        \* the source document as stored at input_path
    loaded,     \* the source was parsed / cloned
    doc,        \* the in-memory document held by writer
    i,          \* index of the page the current loop is at
    j,          \* index of the image the inner loop is at
    trace,      \* library operations attempted so far, in order
    pageTries,  \* page -> number of compress_content_streams attempts
    pageRaised, \* pages whose compress_content_streams raised
    imgTries,   \* <<page, image>> -> number of replace attempts
    imgRaised,  \* <<page, image>> whose replace raised
    enumRaised, \* pages whose image enumeration raised
    imagesAttr, \* the library's page objects have an "images" attribute
    cause,      \* the operation whose exception left the pipeline, "" if none
    fs0,        \* the destination's directory and file before the invocation
    fs,         \* the destination's directory and file now
    exitCode,   \* <<>> while running, <<c>> once the process exited with c
    stdout,     \* chunks printed to standard output
    stderr,     \* chunks printed to the error stream
    w,          \* render.py: parsed WIDTH
    h           \* render.py: parsed HEIGHT

vars == <<entry, argv, pc, lossless, quality, src, loaded, doc, i, j, trace,
          pageTries, pageRaised, imgTries, imgRaised, enumRaised, imagesAttr,
          cause, fs0, fs, exitCode, stdout, stderr, w, h>>

\* ------------------------------------------------------------------ bounds

MaxPages == 2
MaxImages == 2
MaxArgc == 4

\* ------------------------------------------------------------ documents

\* An image is <<>> as stored in the source, <<q>> after a re-encode at quality q.
\* A page keeps the position it had in the source (id), the level its content
\* stream was re-encoded at (<<>> as stored in the source), and its images.
SrcPage(n, imgs) == [id |-> n, stream |-> <<>>, imgs |-> [k \in 1..imgs |-> <<>>]]

\* The source documents: up to MaxPages pages, each with the same number of
\* embedded images, up to MaxImages.
SrcDocs ==
    { [pages |-> [p \in 1..n |-> SrcPage(p, m)], dedup |-> FALSE]
        : n \in 0..MaxPages, m \in 0..MaxImages }

EmptyDoc == [pages |-> <<>>, dedup |-> FALSE]

NoFile == [state |-> "absent", data |-> EmptyDoc]
OldFile == [state |-> "old", data |-> EmptyDoc]

\* The destination before the run: no parent directory, a directory without the
\* file, or an earlier file.
InitialFs ==
    { [dir |-> FALSE, file |-> NoFile],
      [dir |-> TRUE, file |-> NoFile],
      [dir |-> TRUE, file |-> OldFile] }

\* ------------------------------------------------------------- tokens

Digits == {"0", "1", "2", "3", "4", "5", "6", "7", "8", "9"}

DigitVal(c) ==
    CASE c = "0" -> 0 [] c = "1" -> 1 [] c = "2" -> 2 [] c = "3" -> 3
      [] c = "4" -> 4 [] c = "5" -> 5 [] c = "6" -> 6 [] c = "7" -> 7
      [] c = "8" -> 8 [] c = "9" -> 9

\* Python's int(str) on a token without blanks or underscores: an optional
\* sign followed by at least one decimal digit; anything else is a ValueError.
IntBody(tok) == IF tok # <<>> /\ tok[1] \in {"+", "-"} THEN Tail(tok) ELSE tok

IntValid(tok) ==
    /\ IntBody(tok) # <<>>
    /\ \A k \in 1..Len(IntBody(tok)) : IntBody(tok)[k] \in Digits

RECURSIVE IntMag(_)
IntMag(ds) ==
    IF ds = <<>> THEN 0
    ELSE 10 * IntMag(SubSeq(ds, 1, Len(ds) - 1)) + DigitVal(ds[Len(ds)])

PyInt(tok) ==
    IF tok # <<>> /\ tok[1] = "-" THEN 0 - IntMag(IntBody(tok)) ELSE IntMag(IntBody(tok))

\* Command lines.  argv[1] is the script.  The positions a script converts
\* with int() range over words and numbers (an image quality is on the 0-100
\* scale, a WIDTH or HEIGHT is any integer); the others hold a word.
Script == <<"p", "y">>
Word == <<"f">>
Tokens == { Word, <<"5", "0">>, <<"-", "7">> }

NumericTokens(e, k) ==
    CASE e = "ext_main" /\ k = 4 -> { Word, <<"5", "0">> }
      [] e = "render_main" /\ k \in {3, 4} -> Tokens
      [] OTHER -> { Word }

ArgvsOf(e) ==
    { a \in UNION { [1..n -> Tokens \cup {Script}] : n \in 1..MaxArgc } :
        \A k \in 1..Len(a) :
            a[k] \in (IF k = 1 THEN {Script} ELSE NumericTokens(e, k)) }

\* ------------------------------------------------------- statement order

RECURSIVE IndexOf(_, _, _)
IndexOf(order, s, k) ==
    IF k > Len(order) THEN 0
    ELSE IF order[k] = s THEN k ELSE IndexOf(order, s, k + 1)

\* The stage after s in a function body, "returned" after the last one.
Succ(order, s) ==
    IF IndexOf(order, s, 1) = Len(order) THEN "returned"
    ELSE order[IndexOf(order, s, 1) + 1]

\* ------------------------------------------------------------ invocation

Entries == {"ext_call", "ext_main", "basic_call", "basic_main", "render_main"}

IsMain(e) == e \in {"ext_main", "basic_main", "render_main"}
InExt == entry \in {"ext_call", "ext_main"}
InBasic == entry \in {"basic_call", "basic_main"}

\* Image qualities a direct caller passes: None or an integer.
CallQualities == { <<>>, <<50>> }

Outcomes == {"ok", "raise"}

\* --------------------------------------------- pdf_compress.py: compress_pdf

CompressLevel == 9

\* The statements of compress_pdf in program order.
ExtOrder_mkdirFirst == <<"mkdir", "clone", "pages", "images", "dedup", "open", "write">>
ExtOrder_dedupLast == <<"clone", "pages", "images", "mkdir", "open", "write", "dedup">>
ExtOrder == <<"clone", "pages", "images", "dedup", "mkdir", "open", "write">>

\* PdfWriter(clone_from=...): the writer holds the source's whole structure.
Clone(d) == d

\* page.compress_content_streams(level): the page's stream is re-encoded.
CompressContentStreams(d, p, level) == [d EXCEPT !.pages[p].stream = <<level>>]

\* img.replace(img.image, quality=q)
ReplaceImage(d, p, k, q) == [d EXCEPT !.pages[p].imgs[k] = <<q>>]

\* writer.compress_identical_objects(remove_identicals=True, remove_orphans=True)
CompressIdenticalObjects(d) == [d EXCEPT !.dedup = TRUE]

\* if lossless: (line 14)
PcAfterIfLossless_always(flag) == "page_loop"
PcAfterIfLossless(flag) == IF flag THEN "page_loop" ELSE Succ(ExtOrder, "pages")

\* try: page.compress_content_streams(level=9) / except Exception: pass
PcAfterPageAttempt_uncaught(outcome) == IF outcome = "raise" THEN "raised" ELSE "page_loop"
PcAfterPageAttempt(outcome) == "page_loop"

\* try: img.replace(...) / except Exception: pass   (inside the image loop)
PcAfterReplace_outerOnly(outcome) ==
    IF outcome = "raise" THEN Succ(ExtOrder, "images") ELSE "img_loop"
PcAfterReplace(outcome) == "img_loop"

\* for img in getattr(page, "images", []): only the outer try encloses the
\* enumeration, so a raise leaves both loops.  Without the attribute getattr
\* hands back the empty default and nothing can raise.
EnumOutcomes(attr) == IF attr THEN Outcomes ELSE {"ok"}
Enumerated(d, p, attr) == IF attr THEN d.pages[p].imgs ELSE <<>>
PcAfterEnum(outcome) == IF outcome = "raise" THEN Succ(ExtOrder, "images") ELSE "img_loop"

\* try: writer.compress_identical_objects(...) / except Exception: pass
PcAfterDedup_uncaught(outcome) ==
    IF outcome = "raise" THEN "raised" ELSE Succ(ExtOrder, "dedup")
PcAfterDedup(outcome) == Succ(ExtOrder, "dedup")

\* dst.parent.mkdir(parents=True, exist_ok=True): an existing directory is
\* accepted; a missing one is created unless the filesystem refuses.
MkdirOutcomes(f) == IF f.dir THEN {"ok"} ELSE Outcomes
Mkdir(f) == [f EXCEPT !.dir = TRUE]

\* open(path, "wb"): needs the parent directory; creates or truncates the file.
OpenOutcomes(f) == IF f.dir THEN Outcomes ELSE {"raise"}
OpenWb(f) == [f EXCEPT !.file = [state |-> "empty", data |-> EmptyDoc]]

\* writer.write(f): the whole document on success, a torn file on failure.
WriteFile(f, d) == [f EXCEPT !.file = [state |-> "written", data |-> d]]
TornFile(f) == [f EXCEPT !.file = [state |-> "partial", data |-> EmptyDoc]]

Raise(c) == /\ pc' = "raised"
            /\ cause' = c

ExtClone ==
    /\ InExt /\ pc = "clone"
    /\ trace' = Append(trace, "clone")
    /\ \E outcome \in Outcomes :
         IF outcome = "ok"
         THEN \E d \in SrcDocs :
                /\ src' = d
                /\ doc' = Clone(d)
                /\ loaded' = TRUE
                /\ pageTries' = [p \in 1..Len(d.pages) |-> 0]
                /\ imgTries' = [p \in 1..Len(d.pages) |->
                                  [k \in 1..Len(d.pages[p].imgs) |-> 0]]
                /\ pc' = Succ(ExtOrder, "clone")
                /\ UNCHANGED cause
         ELSE /\ Raise("load")
              /\ UNCHANGED <<src, doc, loaded, pageTries, imgTries>>
    /\ UNCHANGED <<imagesAttr, entry, argv, lossless, quality, i, j, pageRaised, imgRaised,
                   enumRaised, fs0, fs, exitCode, stdout, stderr, w, h>>

ExtIfLossless ==
    /\ InExt /\ pc = "pages"
    /\ pc' = PcAfterIfLossless(lossless)
    /\ i' = 1
    /\ UNCHANGED <<imagesAttr, entry, argv, lossless, quality, src, loaded, doc, j, trace,
                   pageTries, pageRaised, imgTries, imgRaised, enumRaised, cause,
                   fs0, fs, exitCode, stdout, stderr, w, h>>

ExtCompressPage ==
    /\ InExt /\ pc = "page_loop" /\ i <= Len(doc.pages)
    /\ trace' = Append(trace, "compress")
    /\ pageTries' = [pageTries EXCEPT ![i] = @ + 1]
    /\ i' = i + 1
    /\ \E outcome \in Outcomes :
         /\ doc' = IF outcome = "ok" THEN CompressContentStreams(doc, i, CompressLevel)
                   ELSE doc
         /\ pageRaised' = IF outcome = "ok" THEN pageRaised ELSE pageRaised \cup {i}
         /\ pc' = PcAfterPageAttempt(outcome)
         /\ cause' = IF PcAfterPageAttempt(outcome) = "raised" THEN "compress" ELSE cause
    /\ UNCHANGED <<imagesAttr, entry, argv, lossless, quality, src, loaded, j, imgTries,
                   imgRaised, enumRaised, fs0, fs, exitCode, stdout, stderr, w, h>>

ExtPagesDone ==
    /\ InExt /\ pc = "page_loop" /\ i > Len(doc.pages)
    /\ pc' = Succ(ExtOrder, "pages")
    /\ UNCHANGED <<imagesAttr, entry, argv, lossless, quality, src, loaded, doc, i, j, trace,
                   pageTries, pageRaised, imgTries, imgRaised, enumRaised, cause,
                   fs0, fs, exitCode, stdout, stderr, w, h>>

ExtIfQuality ==
    /\ InExt /\ pc = "images"
    /\ pc' = IF quality # <<>> THEN "img_pages" ELSE Succ(ExtOrder, "images")
    /\ i' = 1
    /\ UNCHANGED <<imagesAttr, entry, argv, lossless, quality, src, loaded, doc, j, trace,
                   pageTries, pageRaised, imgTries, imgRaised, enumRaised, cause,
                   fs0, fs, exitCode, stdout, stderr, w, h>>

ExtEnumImages ==
    /\ InExt /\ pc = "img_pages" /\ i <= Len(doc.pages)
    /\ trace' = Append(trace, "images")
    /\ j' = 1
    /\ \E outcome \in EnumOutcomes(imagesAttr) :
         /\ enumRaised' = IF outcome = "ok" THEN enumRaised ELSE enumRaised \cup {i}
         /\ pc' = PcAfterEnum(outcome)
    /\ UNCHANGED <<imagesAttr, entry, argv, lossless, quality, src, loaded, doc, i,
                   pageTries, pageRaised, imgTries, imgRaised, cause,
                   fs0, fs, exitCode, stdout, stderr, w, h>>

ExtImagesDone ==
    /\ InExt /\ pc = "img_pages" /\ i > Len(doc.pages)
    /\ pc' = Succ(ExtOrder, "images")
    /\ UNCHANGED <<imagesAttr, entry, argv, lossless, quality, src, loaded, doc, i, j, trace,
                   pageTries, pageRaised, imgTries, imgRaised, enumRaised, cause,
                   fs0, fs, exitCode, stdout, stderr, w, h>>

ExtReplaceImage ==
    /\ InExt /\ pc = "img_loop" /\ j <= Len(Enumerated(doc, i, imagesAttr))
    /\ trace' = Append(trace, "replace")
    /\ imgTries' = [imgTries EXCEPT ![i][j] = @ + 1]
    /\ j' = j + 1
    /\ \E outcome \in Outcomes :
         /\ doc' = IF outcome = "ok" THEN ReplaceImage(doc, i, j, quality[1]) ELSE doc
         /\ imgRaised' = IF outcome = "ok" THEN imgRaised ELSE imgRaised \cup {<<i, j>>}
         /\ pc' = PcAfterReplace(outcome)
    /\ UNCHANGED <<imagesAttr, entry, argv, lossless, quality, src, loaded, i, pageTries,
                   pageRaised, enumRaised, cause, fs0, fs, exitCode, stdout,
                   stderr, w, h>>

ExtPageImagesDone ==
    /\ InExt /\ pc = "img_loop" /\ j > Len(Enumerated(doc, i, imagesAttr))
    /\ pc' = "img_pages"
    /\ i' = i + 1
    /\ UNCHANGED <<imagesAttr, entry, argv, lossless, quality, src, loaded, doc, j, trace,
                   pageTries, pageRaised, imgTries, imgRaised, enumRaised, cause,
                   fs0, fs, exitCode, stdout, stderr, w, h>>

ExtDedup ==
    /\ InExt /\ pc = "dedup"
    /\ trace' = Append(trace, "dedup")
    /\ \E outcome \in Outcomes :
         /\ doc' = IF outcome = "ok" THEN CompressIdenticalObjects(doc) ELSE doc
         /\ pc' = PcAfterDedup(outcome)
         /\ cause' = IF PcAfterDedup(outcome) = "raised" THEN "dedup" ELSE cause
    /\ UNCHANGED <<imagesAttr, entry, argv, lossless, quality, src, loaded, i, j, pageTries,
                   pageRaised, imgTries, imgRaised, enumRaised, fs0, fs, exitCode,
                   stdout, stderr, w, h>>

ExtMkdir ==
    /\ InExt /\ pc = "mkdir"
    /\ trace' = Append(trace, "mkdir")
    /\ \E outcome \in MkdirOutcomes(fs) :
         IF outcome = "ok"
         THEN /\ fs' = Mkdir(fs)
              /\ pc' = Succ(ExtOrder, "mkdir")
              /\ UNCHANGED cause
         ELSE /\ Raise("mkdir")
              /\ UNCHANGED fs
    /\ UNCHANGED <<imagesAttr, entry, argv, lossless, quality, src, loaded, doc, i, j,
                   pageTries, pageRaised, imgTries, imgRaised, enumRaised, fs0,
                   exitCode, stdout, stderr, w, h>>

ExtOpen ==
    /\ InExt /\ pc = "open"
    /\ trace' = Append(trace, "open")
    /\ \E outcome \in OpenOutcomes(fs) :
         IF outcome = "ok"
         THEN /\ fs' = OpenWb(fs)
              /\ pc' = Succ(ExtOrder, "open")
              /\ UNCHANGED cause
         ELSE /\ Raise("open")
              /\ UNCHANGED fs
    /\ UNCHANGED <<imagesAttr, entry, argv, lossless, quality, src, loaded, doc, i, j,
                   pageTries, pageRaised, imgTries, imgRaised, enumRaised, fs0,
                   exitCode, stdout, stderr, w, h>>

ExtWrite ==
    /\ InExt /\ pc = "write"
    /\ trace' = Append(trace, "write")
    /\ \E outcome \in Outcomes :
         IF outcome = "ok"
         THEN /\ fs' = WriteFile(fs, doc)
              /\ pc' = Succ(ExtOrder, "write")
              /\ UNCHANGED cause
         ELSE /\ fs' = TornFile(fs)
              /\ Raise("write")
    /\ UNCHANGED <<imagesAttr, entry, argv, lossless, quality, src, loaded, doc, i, j,
                   pageTries, pageRaised, imgTries, imgRaised, enumRaised, fs0,
                   exitCode, stdout, stderr, w, h>>

\* ----------------------------------------------- compress_pdf.py: compress_pdf

\* zlib's default level, used when compress_content_streams() is given none.
ZlibDefault == -1

\* The statements of the basic compress_pdf in program order.
BasicOrder == <<"read", "copy", "compress", "open", "write">>

\* writer.add_page(page): the page goes to the end of the output.
AddPage_front(d, page) == [d EXCEPT !.pages = <<page>> \o @]
AddPage(d, page) == [d EXCEPT !.pages = Append(@, page)]

\* writer.compress_content_streams() reaching the first k pages.
CompressAll(d, k) ==
    [d EXCEPT !.pages = [p \in 1..Len(d.pages) |->
        IF p <= k THEN [d.pages[p] EXCEPT !.stream = <<ZlibDefault>>] ELSE d.pages[p]]]

\* try: writer.compress_content_streams() / except Exception: pass
PcAfterCompressAll(outcome) == Succ(BasicOrder, "compress")

BasicRead ==
    /\ InBasic /\ pc = "read"
    /\ trace' = Append(trace, "read")
    /\ i' = 1
    /\ \E outcome \in Outcomes :
         IF outcome = "ok"
         THEN \E d \in SrcDocs :
                /\ src' = d
                /\ loaded' = TRUE
                /\ pc' = Succ(BasicOrder, "read")
                /\ UNCHANGED cause
         ELSE /\ Raise("load")
              /\ UNCHANGED <<src, loaded>>
    /\ UNCHANGED <<imagesAttr, entry, argv, lossless, quality, doc, j, pageTries, pageRaised,
                   imgTries, imgRaised, enumRaised, fs0, fs, exitCode, stdout,
                   stderr, w, h>>

\* reader.pages parses each page when the loop reaches it.
BasicAddPage ==
    /\ InBasic /\ pc = "copy" /\ i <= Len(src.pages)
    /\ trace' = Append(trace, "add_page")
    /\ i' = i + 1
    /\ \E outcome \in Outcomes :
         IF outcome = "ok"
         THEN /\ doc' = AddPage(doc, src.pages[i])
              /\ UNCHANGED <<pc, cause>>
         ELSE /\ Raise("load")
              /\ UNCHANGED doc
    /\ UNCHANGED <<imagesAttr, entry, argv, lossless, quality, src, loaded, j, pageTries,
                   pageRaised, imgTries, imgRaised, enumRaised, fs0, fs, exitCode,
                   stdout, stderr, w, h>>

BasicCopyDone ==
    /\ InBasic /\ pc = "copy" /\ i > Len(src.pages)
    /\ pc' = Succ(BasicOrder, "copy")
    /\ UNCHANGED <<imagesAttr, entry, argv, lossless, quality, src, loaded, doc, i, j, trace,
                   pageTries, pageRaised, imgTries, imgRaised, enumRaised, cause,
                   fs0, fs, exitCode, stdout, stderr, w, h>>

BasicCompress ==
    /\ InBasic /\ pc = "compress"
    /\ trace' = Append(trace, "compress_all")
    /\ \E outcome \in Outcomes :
         /\ IF outcome = "ok" THEN doc' = CompressAll(doc, Len(doc.pages))
            ELSE \E k \in 0..Len(doc.pages) : doc' = CompressAll(doc, k)
         /\ pc' = PcAfterCompressAll(outcome)
         /\ cause' = IF PcAfterCompressAll(outcome) = "raised" THEN "compress" ELSE cause
    /\ UNCHANGED <<imagesAttr, entry, argv, lossless, quality, src, loaded, i, j, pageTries,
                   pageRaised, imgTries, imgRaised, enumRaised, fs0, fs, exitCode,
                   stdout, stderr, w, h>>

BasicOpen ==
    /\ InBasic /\ pc = "open"
    /\ trace' = Append(trace, "open")
    /\ \E outcome \in OpenOutcomes(fs) :
         IF outcome = "ok"
         THEN /\ fs' = OpenWb(fs)
              /\ pc' = Succ(BasicOrder, "open")
              /\ UNCHANGED cause
         ELSE /\ Raise("open")
              /\ UNCHANGED fs
    /\ UNCHANGED <<imagesAttr, entry, argv, lossless, quality, src, loaded, doc, i, j,
                   pageTries, pageRaised, imgTries, imgRaised, enumRaised, fs0,
                   exitCode, stdout, stderr, w, h>>

BasicWrite ==
    /\ InBasic /\ pc = "write"
    /\ trace' = Append(trace, "write")
    /\ \E outcome \in Outcomes :
         IF outcome = "ok"
         THEN /\ fs' = WriteFile(fs, doc)
              /\ pc' = Succ(BasicOrder, "write")
              /\ UNCHANGED cause
         ELSE /\ fs' = TornFile(fs)
              /\ Raise("write")
    /\ UNCHANGED <<imagesAttr, entry, argv, lossless, quality, src, loaded, doc, i, j,
                   pageTries, pageRaised, imgTries, imgRaised, enumRaised, fs0,
                   exitCode, stdout, stderr, w, h>>

\* ------------------------------------------------------ the scripts' mains

Exit(code) == /\ exitCode' = <<code>>
              /\ pc' = "exited"

\* compress_pdf.py: if len(sys.argv) != 3
BasicArgcOk_atLeast(args) == Len(args) >= 3
BasicArgcOk(args) == Len(args) = 3

BasicMainUsage ==
    /\ entry = "basic_main" /\ pc = "main"
    /\ ~BasicArgcOk(argv)
    /\ stderr' = Append(stderr, "Usage")
    /\ Exit(1)
    /\ UNCHANGED <<imagesAttr, entry, argv, lossless, quality, src, loaded, doc, i, j, trace,
                   pageTries, pageRaised, imgTries, imgRaised, enumRaised, cause,
                   fs0, fs, stdout, w, h>>

BasicMainCall ==
    /\ entry = "basic_main" /\ pc = "main"
    /\ BasicArgcOk(argv)
    /\ pc' = BasicOrder[1]
    /\ UNCHANGED <<imagesAttr, entry, argv, lossless, quality, src, loaded, doc, i, j, trace,
                   pageTries, pageRaised, imgTries, imgRaised, enumRaised, cause,
                   fs0, fs, exitCode, stdout, stderr, w, h>>

\* main() returned: the script ends and the interpreter exits with 0.
BasicMainDone ==
    /\ entry = "basic_main" /\ pc = "returned"
    /\ Exit(0)
    /\ UNCHANGED <<imagesAttr, entry, argv, lossless, quality, src, loaded, doc, i, j, trace,
                   pageTries, pageRaised, imgTries, imgRaised, enumRaised, cause,
                   fs0, fs, stdout, stderr, w, h>>

\* pdf_compress.py: if len(sys.argv) < 3
ExtTooFewArgs_offByOne(args) == Len(args) < 2
ExtTooFewArgs(args) == Len(args) < 3

ExtMainUsage ==
    /\ entry = "ext_main" /\ pc = "main"
    /\ ExtTooFewArgs(argv)
    /\ stdout' = Append(stdout, "Usage")
    /\ Exit(2)
    /\ UNCHANGED <<imagesAttr, entry, argv, lossless, quality, src, loaded, doc, i, j, trace,
                   pageTries, pageRaised, imgTries, imgRaised, enumRaised, cause,
                   fs0, fs, stderr, w, h>>

\* quality = int(sys.argv[3]) if len(sys.argv) > 3 else None, then the call
\* compress_pdf(input_pdf, output_pdf, lossless=True, image_quality=quality).
ExtMainCall ==
    /\ entry = "ext_main" /\ pc = "main"
    /\ ~ExtTooFewArgs(argv)
    /\ IF Len(argv) > 3
       THEN IF IntValid(argv[4])
            THEN /\ quality' = <<PyInt(argv[4])>>
                 /\ pc' = ExtOrder[1]
                 /\ UNCHANGED cause
            ELSE /\ Raise("argv")
                 /\ UNCHANGED quality
       ELSE /\ quality' = <<>>
            /\ pc' = ExtOrder[1]
            /\ UNCHANGED cause
    /\ lossless' = TRUE
    /\ UNCHANGED <<imagesAttr, entry, argv, src, loaded, doc, i, j, trace, pageTries,
                   pageRaised, imgTries, imgRaised, enumRaised, fs0, fs, exitCode,
                   stdout, stderr, w, h>>

\* return 0, raised as SystemExit(0)
ExtMainDone ==
    /\ entry = "ext_main" /\ pc = "returned"
    /\ Exit(0)
    /\ UNCHANGED <<imagesAttr, entry, argv, lossless, quality, src, loaded, doc, i, j, trace,
                   pageTries, pageRaised, imgTries, imgRaised, enumRaised, cause,
                   fs0, fs, stdout, stderr, w, h>>

\* An exception no handler caught reaches the interpreter: a traceback on the
\* error stream and exit status 1.
Uncaught ==
    /\ IsMain(entry) /\ pc = "raised"
    /\ stderr' = Append(stderr, "Traceback")
    /\ Exit(1)
    /\ UNCHANGED <<imagesAttr, entry, argv, lossless, quality, src, loaded, doc, i, j, trace,
                   pageTries, pageRaised, imgTries, imgRaised, enumRaised, cause,
                   fs0, fs, stdout, w, h>>

\* ------------------------------------------------------------ render.py

DefaultWidth == 400
DefaultHeight == 300

\* A text is a sequence of chunks; "<?xml" stands for an XML declaration.
Blank == {" ", "\n"}

\* What GetDrawingText may hand back: with a declaration, without one, and
\* without one after a leading line break.
SvgTexts == { <<"<?xml", "\n", "<svg">>, <<"<svg">>, <<"\n", "<svg">> }

RECURSIVE LStrip(_)
LStrip(t) == IF t # <<>> /\ t[1] \in Blank THEN LStrip(Tail(t)) ELSE t

StartsWithXml(t) == t # <<>> /\ t[1] = "<?xml"

\* if not svg.lstrip().startswith("<?xml"): svg = '<?xml ...?>\n' + svg
EnsureXmlHeader(svg) ==
    IF ~StartsWithXml(LStrip(svg)) THEN <<"<?xml", "\n">> \o svg ELSE svg

RenderUsage ==
    /\ entry = "render_main" /\ pc = "main"
    /\ Len(argv) < 2
    /\ stderr' = Append(stderr, "Usage")
    /\ Exit(2)
    /\ UNCHANGED <<imagesAttr, entry, argv, lossless, quality, src, loaded, doc, i, j, trace,
                   pageTries, pageRaised, imgTries, imgRaised, enumRaised, cause,
                   fs0, fs, stdout, w, h>>

\* w = int(argv[2]) if len(argv) > 2 else 400      (before the try)
RenderParseWidth ==
    /\ entry = "render_main" /\ pc = "main"
    /\ ~(Len(argv) < 2)
    /\ IF Len(argv) > 2
       THEN IF IntValid(argv[3])
            THEN /\ w' = PyInt(argv[3])
                 /\ pc' = "parse_h"
                 /\ UNCHANGED cause
            ELSE /\ Raise("argv")
                 /\ UNCHANGED w
       ELSE /\ w' = DefaultWidth
            /\ pc' = "parse_h"
            /\ UNCHANGED cause
    /\ UNCHANGED <<imagesAttr, entry, argv, lossless, quality, src, loaded, doc, i, j, trace,
                   pageTries, pageRaised, imgTries, imgRaised, enumRaised,
                   fs0, fs, exitCode, stdout, stderr, h>>

\* h = int(argv[3]) if len(argv) > 3 else 300      (before the try)
RenderParseHeight ==
    /\ entry = "render_main" /\ pc = "parse_h"
    /\ IF Len(argv) > 3
       THEN IF IntValid(argv[4])
            THEN /\ h' = PyInt(argv[4])
                 /\ pc' = "try"
                 /\ UNCHANGED cause
            ELSE /\ Raise("argv")
                 /\ UNCHANGED h
       ELSE /\ h' = DefaultHeight
            /\ pc' = "try"
            /\ UNCHANGED cause
    /\ UNCHANGED <<imagesAttr, entry, argv, lossless, quality, src, loaded, doc, i, j, trace,
                   pageTries, pageRaised, imgTries, imgRaised, enumRaised,
                   fs0, fs, exitCode, stdout, stderr, w>>

\* try: svg = smiles_to_svg(smiles, w, h) ... print(svg); return 0
\* except Exception as exc: print(f"ERROR: {exc}", file=sys.stderr); return 1
\* MolFromSmiles returns None for a string it cannot parse ("invalid"); any
\* call into the toolkit may raise ("raise").
RenderTry ==
    /\ entry = "render_main" /\ pc = "try"
    /\ \E result \in {"svg", "invalid", "raise"} :
         IF result = "svg"
         THEN \E text \in SvgTexts :
                /\ stdout' = stdout \o EnsureXmlHeader(text)
                /\ Exit(0)
                /\ UNCHANGED <<stderr, cause>>
         ELSE /\ stderr' = stderr \o <<"ERROR: ",
                              IF result = "invalid" THEN "Invalid SMILES" ELSE "rdkit">>
              /\ cause' = result
              /\ Exit(1)
              /\ UNCHANGED stdout
    /\ UNCHANGED <<imagesAttr, entry, argv, lossless, quality, src, loaded, doc, i, j, trace,
                   pageTries, pageRaised, imgTries, imgRaised, enumRaised,
                   fs0, fs, w, h>>

\* ------------------------------------------------------- specification

Init ==
    /\ entry \in Entries
    /\ argv \in (IF IsMain(entry) THEN ArgvsOf(entry) ELSE { <<>> })
    /\ pc = CASE IsMain(entry) -> "main"
              [] entry = "ext_call" -> ExtOrder[1]
              [] entry = "basic_call" -> BasicOrder[1]
    /\ lossless \in (IF entry = "ext_call" THEN BOOLEAN ELSE {TRUE})
    /\ quality \in (IF entry = "ext_call" THEN CallQualities ELSE { <<>> })
    /\ src = EmptyDoc
    /\ loaded = FALSE
    /\ doc = EmptyDoc
    /\ i = 1
    /\ j = 1
    /\ trace = <<>>
    /\ pageTries = <<>>
    /\ pageRaised = {}
    /\ imgTries = <<>>
    /\ imgRaised = {}
    /\ enumRaised = {}
    /\ imagesAttr \in (IF InExt THEN BOOLEAN ELSE {TRUE})
    /\ cause = ""
    /\ fs0 \in InitialFs
    /\ fs = fs0
    /\ exitCode = <<>>
    /\ stdout = <<>>
    /\ stderr = <<>>
    /\ w = 0
    /\ h = 0

Next ==
    \/ ExtClone \/ ExtIfLossless \/ ExtCompressPage \/ ExtPagesDone
    \/ ExtIfQuality \/ ExtEnumImages \/ ExtImagesDone \/ ExtReplaceImage
    \/ ExtPageImagesDone \/ ExtDedup \/ ExtMkdir \/ ExtOpen \/ ExtWrite
    \/ BasicRead \/ BasicAddPage \/ BasicCopyDone \/ BasicCompress
    \/ BasicOpen \/ BasicWrite
    \/ BasicMainUsage \/ BasicMainCall \/ BasicMainDone
    \/ ExtMainUsage \/ ExtMainCall \/ ExtMainDone
    \/ Uncaught
    \/ RenderUsage \/ RenderParseWidth \/ RenderParseHeight \/ RenderTry

Spec == Init /\ [][Next]_vars

\* -------------------------------------------------------------- properties

Count(seq, x) == Cardinality({ k \in 1..Len(seq) : seq[k] = x })
Occurs(seq, x) == \E k \in 1..Len(seq) : seq[k] = x

Pages == 1..Len(doc.pages)
ImagesOf(p) == 1..Len(doc.pages[p].imgs)

\* compress_pdf returned normally (for a script: and main exited with 0).
PipelineReturned == pc = "returned" \/ (pc = "exited" /\ exitCode = <<0>>)

\* The destination holds the serialized in-memory document.
Written == fs.file = [state |-> "written", data |-> doc]

\* The extended pipeline has left the page loop / the image loops.
PastPages == InExt /\ loaded /\ pc \notin {"main", "clone", "pages", "page_loop"}
PastImages == PastPages /\ pc \notin {"images", "img_pages", "img_loop"}

FatalCauses == {"load", "mkdir", "open", "write"}

\* C1: extended pipeline, lossless set: whichever pages' compression raises,
\* once the page loop is over every page was attempted exactly once at level 9
\* and every page whose attempt did not raise is compressed; no page failure
\* leaves the pipeline, and a run that returns attempted the de-duplication
\* and wrote the file.
C1_PageFailuresIsolated ==
    (PastPages /\ lossless) =>
        /\ Len(doc.pages) = Len(src.pages)
        /\ \A p \in Pages :
              /\ pageTries[p] = 1
              /\ p \notin pageRaised => doc.pages[p].stream = <<CompressLevel>>
        /\ Count(trace, "compress") = Len(doc.pages)
        /\ pc = "raised" => cause \in {"mkdir", "open", "write"}
        /\ PipelineReturned => Count(trace, "dedup") = 1 /\ Written

C1_Witness ==
    /\ InExt /\ lossless /\ pc = "returned" /\ Written
    /\ pageRaised # {}
    /\ \E p \in Pages : p \notin pageRaised /\ doc.pages[p].stream = <<CompressLevel>>

\* C2: in both pipelines an exception leaves compress_pdf only from the load
\* (parse / clone), the directory creation, or opening and writing the
\* destination; whatever fails inside content-stream compression, image
\* enumeration and re-encoding or de-duplication, a run without those fatal
\* failures keeps going until it returns with the document serialized.
C2_OnlyLoadAndWriteAreFatal ==
    (InExt \/ InBasic) =>
        /\ cause \in FatalCauses \cup {"", "argv"}
        /\ pc = "raised" => cause # ""
        /\ PipelineReturned => Written
        /\ (cause = "" /\ pc \notin {"returned", "exited"}) => ENABLED Next

C2_Witness ==
    /\ InExt /\ pc = "returned" /\ Written
    /\ pageRaised # {} /\ imgRaised # {} /\ enumRaised # {}
    /\ Occurs(trace, "dedup") /\ ~doc.dedup

\* C3: the operations of a run of the extended pipeline come in the order
\* clone, page compression, image re-encoding, de-duplication, mkdir, open,
\* write; page compression only if lossless, image work only if a quality was
\* given; nothing is attempted twice; every run that loaded has attempted the
\* de-duplication exactly once by the time it reaches mkdir; the write comes
\* after the de-duplication attempt and the directory creation.
Rank(op) ==
    CASE op = "clone" -> 1 [] op = "compress" -> 2 [] op = "images" -> 3
      [] op = "replace" -> 3 [] op = "dedup" -> 4 [] op = "mkdir" -> 5
      [] op = "open" -> 6 [] op = "write" -> 7

C3_StagesInOrder ==
    InExt =>
        /\ \A a \in 1..(Len(trace) - 1) : Rank(trace[a]) <= Rank(trace[a + 1])
        /\ \A op \in {"clone", "dedup", "mkdir", "open", "write"} : Count(trace, op) <= 1
        /\ \A p \in Pages : pageTries[p] <= 1 /\ \A k \in ImagesOf(p) : imgTries[p][k] <= 1
        /\ Occurs(trace, "compress") => lossless
        /\ (Occurs(trace, "images") \/ Occurs(trace, "replace")) => quality # <<>>
        /\ (loaded /\ pc \in {"mkdir", "open", "write", "returned", "raised", "exited"})
              => Count(trace, "dedup") = 1
        /\ Occurs(trace, "write") =>
              /\ 0 < IndexOf(trace, "dedup", 1)
              /\ IndexOf(trace, "dedup", 1) < IndexOf(trace, "mkdir", 1)
              /\ IndexOf(trace, "mkdir", 1) < IndexOf(trace, "write", 1)

C3_Witness ==
    /\ InExt /\ pc = "returned"
    /\ Occurs(trace, "compress") /\ Occurs(trace, "replace")
    /\ pageRaised # {} /\ imgRaised # {}
    /\ trace[Len(trace)] = "write"

FirstEnumRaised ==
    IF enumRaised = {} THEN Len(doc.pages) + 1
    ELSE CHOOSE p \in enumRaised : \A q \in enumRaised : p <= q

C5_BasicKeepsPages ==
    (InBasic /\ fs.file.state = "written") =>
        /\ Len(fs.file.data.pages) = Len(src.pages)
        /\ \A p \in 1..Len(src.pages) :
              /\ fs.file.data.pages[p].id = p
              /\ [fs.file.data.pages[p] EXCEPT !.stream = <<>>] = src.pages[p]

C5_Witness ==
    /\ InBasic /\ fs.file.state = "written" /\ Len(src.pages) >= 2
    /\ fs.file.data.pages[1].stream # <<>>
    /\ fs.file.data.pages[2].stream = <<>>

\* C6: extended pipeline called with lossless = False and no image quality:
\* nothing touches the in-memory document before the de-duplication, and when
\* the de-duplication call raises the document written is the clone of the source.
C6_PassThrough ==
    (InExt /\ loaded /\ ~lossless /\ quality = <<>> /\ ~doc.dedup) =>
        /\ doc = src
        /\ \A p \in Pages : pageTries[p] = 0 /\ \A k \in ImagesOf(p) : imgTries[p][k] = 0
        /\ fs.file.state = "written" => fs.file.data = src

C6_Witness ==
    /\ InExt /\ pc = "returned" /\ ~lossless /\ quality = <<>>
    /\ Occurs(trace, "dedup") /\ ~doc.dedup
    /\ fs.file.state = "written" /\ Len(src.pages) >= 2 /\ ImagesOf(1) # {}

\* The number of command-line arguments given to a script.
Argc == Len(argv) - 1

\* The usage exit of compress_pdf.py: exit code 1, usage on the error stream,
\* no pipeline step taken, no file read or written.
BasicUsageExit ==
    /\ exitCode = <<1>> /\ stderr = <<"Usage">> /\ stdout = <<>>
    /\ trace = <<>> /\ ~loaded /\ fs = fs0

\* C7 as claimed: 1 argument exits 1 with the usage; 3 arguments and a valid
\* input (nothing fails) run the pipeline and exit 0.
C7_ThreeArgumentsRun ==
    (entry = "basic_main" /\ pc = "exited") =>
        /\ Argc = 1 => BasicUsageExit
        /\ (Argc = 3 /\ cause = "") => (exitCode = <<0>> /\ Occurs(trace, "read") /\ Written)

\* C7 amended: compress_pdf.py exits 1 with the usage on the error stream and
\* without running any pipeline step on every argument count other than 2
\* (so with 1 and with 3 arguments); with exactly 2 arguments it runs the
\* pipeline, and exits 0 with the destination written when nothing fails.
C7_TwoArgumentsRun ==
    entry = "basic_main" =>
        /\ Argc # 2 => (pc = "main" \/ (pc = "exited" /\ BasicUsageExit))
        /\ (Argc = 2 /\ pc = "exited") => (Occurs(trace, "read") /\ ~BasicUsageExit)
        /\ (Argc = 2 /\ pc = "exited" /\ cause = "") =>
              (exitCode = <<0>> /\ Written /\ stderr = <<>>)

C7_Witness ==
    /\ entry = "basic_main" /\ Argc = 3 /\ pc = "exited" /\ BasicUsageExit

\* The three outcomes C8 names for pdf_compress.py.
ExtUsageExit ==
    /\ Argc < 2 /\ exitCode = <<2>>
    /\ trace = <<>> /\ ~loaded /\ fs = fs0

ExtCompletedExit ==
    /\ Argc >= 2 /\ exitCode = <<0>> /\ Written /\ fs.dir
    /\ IF Argc >= 3
       THEN /\ IntValid(argv[4]) /\ quality = <<PyInt(argv[4])>>
            /\ \A p \in Pages : \A k \in ImagesOf(p) :
                  doc.pages[p].imgs[k] \in { <<>>, <<PyInt(argv[4])>> }
       ELSE /\ quality = <<>>
            /\ \A p \in Pages : \A k \in ImagesOf(p) :
                  imgTries[p][k] = 0 /\ doc.pages[p].imgs[k] = <<>>

ExtFatalExit ==
    /\ Argc >= 2 /\ exitCode = <<1>> /\ stderr = <<"Traceback">>
    /\ cause \in FatalCauses

\* C8 as claimed: every exit of pdf_compress.py is one of the three.
C8_ThreeOutcomes ==
    (entry = "ext_main" /\ pc = "exited") =>
        (ExtUsageExit \/ ExtCompletedExit \/ ExtFatalExit)

\* A third argument int() rejects: the ValueError leaves main before
\* compress_pdf is called.
ExtBadQualityExit ==
    /\ Argc >= 3 /\ ~IntValid(argv[4])
    /\ exitCode = <<1>> /\ stderr = <<"Traceback">> /\ cause = "argv"
    /\ trace = <<>> /\ ~loaded /\ fs = fs0

\* C8 amended: pdf_compress.py has four outcomes: exit code 2 without running
\* the pipeline on fewer than 2 arguments; exit code 0 after the pipeline wrote
\* the destination, run with the third argument as image quality when present
\* and leaving images untouched when absent; an uncaught failure for a fatal
\* load, mkdir, open or write error of the pipeline; and an uncaught ValueError,
\* raised before the pipeline runs, when the third argument is not an integer.
C8_FourOutcomes ==
    (entry = "ext_main" /\ pc = "exited") =>
        /\ ExtUsageExit \/ ExtCompletedExit \/ ExtFatalExit \/ ExtBadQualityExit
        /\ (Argc >= 3 /\ ~IntValid(argv[4])) => ExtBadQualityExit

C8_Witness ==
    /\ entry = "ext_main" /\ pc = "exited" /\ ExtBadQualityExit

\* C9: every exit of render.py is exit 2 for a missing SMILES argument, exit 0
\* with output that begins with an XML declaration, or exit 1 with a line
\* 'ERROR: <message>' on the error stream and nothing on standard output.
C9_ThreeOutcomes ==
    (entry = "render_main" /\ pc = "exited") =>
        \/ Argc < 1 /\ exitCode = <<2>>
        \/ Argc >= 1 /\ exitCode = <<0>> /\ StartsWithXml(stdout) /\ stderr = <<>>
        \/ /\ Argc >= 1 /\ exitCode = <<1>> /\ stdout = <<>>
           /\ Len(stderr) = 2 /\ stderr[1] = "ERROR: "

\* C10: in both pipelines the destination's directory and file change only
\* after the load and the optional stages: a run whose load failed leaves them
\* as they were, having attempted neither mkdir nor open.
C10_LoadFailureLeavesFs ==
    (InExt \/ InBasic) =>
        /\ cause = "load" =>
              /\ fs = fs0
              /\ ~Occurs(trace, "mkdir") /\ ~Occurs(trace, "open")
              /\ ~Occurs(trace, "write")
        /\ fs # fs0 => loaded
        /\ (Occurs(trace, "mkdir") \/ Occurs(trace, "open")) =>
              (loaded /\ (InExt => Occurs(trace, "dedup")))

C10_Witness ==
    /\ InExt /\ pc = "raised" /\ cause = "load" /\ ~fs0.dir /\ fs = fs0

====
